---- MODULE Spec2Model ----
(***************************************************************************)
(* BroadcastBuddy (src/main.py): the TranscriptionWorker thread and the    *)
(* stop request of the window.                                             *)
(*                                                                         *)
(* The worker runs TranscriptionWorker.run on a thread of its own; the UI   *)
(* thread calls TranscriptionWorker.stop from IPTVApp.closeEvent.  Every    *)
(* blocking call of a cycle (temp files, download, ffmpeg, whisper, ollama, *)
(* sleep) is one step of the worker, so closeEvent can fall between any two *)
(* of them.  A step that is never taken (stuttering) is a call that blocks, *)
(* or the daemon thread dying with the process.                            *)
(*                                                                         *)
(* Text.  The transcript is kept at the grain the code works at: a text is  *)
(* a sequence of pieces, a piece being the separator " " (1 character) or   *)
(* one transcribed chunk with its length in characters.  The summary and    *)
(* the backend's stdout are sequences of atoms: a whitespace atom (" ",     *)
(* "\n") or an atom without surrounding whitespace; str.strip() removes the *)
(* whitespace atoms at both ends.                                          *)
(***************************************************************************)
EXTENDS Integers, Sequences, FiniteSets, TLC

\* Number of cycles (temp-file pairs created) the model follows.
MaxCycles == 3

\* src/main.py:30
OLLAMA_CHUNK_SIZE_CHARS == 500

VARIABLES
    running,           \* TranscriptionWorker._running
    summary,           \* TranscriptionWorker.summary (RunningSummary)
    transcript_accum,  \* TranscriptionWorker.transcript_accum (pending text)
    pc,                \* position of the worker thread in run()
    cycle,             \* number of temp-file pairs created so far
    fs,                \* scratch files present on disk
    written,           \* bytes written to stream_path by this cycle's download
    exc,               \* an exception is propagating out of the try block
    chunk,             \* local `chunk` of run(): length of the transcribed text
    published,         \* last value carried by update_summary_signal, if any
    last_update,       \* the last update_summary call: arguments, backend, outcome
    notified,          \* bodies handed to a Notifier (mail) so far
    transcribed,       \* non-empty chunks that reached line 69, in order
    batches,           \* texts passed to update_summary, in order
    stop_at,           \* where the worker stood when closeEvent called stop()
    signal_queue,      \* update_summary_signal emissions not yet delivered to the UI
    summary_box        \* IPTVApp.summary_box, the text the window shows

vars == <<running, summary, transcript_accum, pc, cycle, fs, written, exc, chunk,
          published, last_update, notified, transcribed, batches, stop_at,
          signal_queue, summary_box>>

\* Everything the worker thread owns (all but the stop flag and its history).
workerVars == <<summary, transcript_accum, pc, cycle, fs, written, exc, chunk,
                published, last_update, notified, transcribed, batches>>

----------------------------------------------------------------------------
\* Transcript text

Sep == [kind |-> "sep", len |-> 1]

Chunk(n) == [kind |-> "chunk", len |-> n]

EmptyText == << >>

\* Lengths of the texts whisper may return for one segment; 0 is the empty text.
ChunkLens == {0, 150, 200, 499}

RECURSIVE TextLen(_)
\* len(text)
TextLen(t) == IF t = << >> THEN 0 ELSE Head(t).len + TextLen(Tail(t))

RECURSIVE ChunksOf(_)
\* The chunk lengths a text contains, in order.
ChunksOf(t) ==
    IF t = << >> THEN << >>
    ELSE IF Head(t).kind = "chunk" THEN <<Head(t).len>> \o ChunksOf(Tail(t))
    ELSE ChunksOf(Tail(t))

RECURSIVE Concat(_)
\* Concatenation of a sequence of texts.
Concat(ts) == IF ts = << >> THEN << >> ELSE Head(ts) \o Concat(Tail(ts))

\* line 70: self.transcript_accum += " " + chunk
AppendChunk(accum, n) == accum \o <<Sep, Chunk(n)>>

\* line 71: len(self.transcript_accum) >= OLLAMA_CHUNK_SIZE_CHARS
ThresholdReached(accum) == TextLen(accum) >= OLLAMA_CHUNK_SIZE_CHARS

----------------------------------------------------------------------------
\* Strings of the summarizer

Whitespace == {" ", "\n"}

RECURSIVE LStrip(_)
LStrip(s) == IF s # << >> /\ Head(s) \in Whitespace THEN LStrip(Tail(s)) ELSE s

RECURSIVE RStrip(_)
RStrip(s) ==
    IF s # << >> /\ s[Len(s)] \in Whitespace
    THEN RStrip(SubSeq(s, 1, Len(s) - 1))
    ELSE s

\* str.strip()
Strip(s) == RStrip(LStrip(s))

\* What json.loads makes of a stdout.
NotJson == [type |-> "invalid", has_completion |-> FALSE, is_str |-> FALSE,
            completion |-> << >>]

JsonOther == [type |-> "other", has_completion |-> FALSE, is_str |-> FALSE,
              completion |-> << >>]

JsonObject(has, isstr, c) ==
    [type |-> "object", has_completion |-> has, is_str |-> isstr, completion |-> c]

\* One behaviour of `ollama run`: whether the process could be started, its
\* exit status, its stdout, and the value json.loads gives for that stdout.
Backend(launched, rc, out, js) ==
    [launched |-> launched, returncode |-> rc, stdout |-> out, json |-> js]

BackendResponses ==
    { Backend(FALSE, 0, << >>, NotJson),                       \* ollama not found
      Backend(TRUE, 1, << >>, NotJson),                        \* non-zero exit
      Backend(TRUE, 0, <<" ", "X", "\n">>, NotJson),           \* plain text
      Backend(TRUE, 0, <<"\n">>, NotJson),                     \* blank output
      Backend(TRUE, 0, <<"{\"completion\": \" Y \"}", "\n">>,
              JsonObject(TRUE, TRUE, <<" ", "Y", " ">>)),      \* keyed, completion
      Backend(TRUE, 0, <<"{\"response\": \"Z\"}", "\n">>,
              JsonObject(FALSE, FALSE, << >>)),                \* keyed, no completion
      Backend(TRUE, 0, <<"{\"completion\": 7}">>,
              JsonObject(TRUE, FALSE, << >>)),                 \* completion not a str
      Backend(TRUE, 0, <<"42", "\n">>, JsonOther) }            \* JSON, not an object

Return(v) == [raised |-> FALSE, error |-> "", value |-> v]

Raise(e) == [raised |-> TRUE, error |-> e, value |-> << >>]

\* TranscriptionWorker.update_summary.  new_chunk only enters the prompt.
update_summary(current, new_chunk, resp) ==
    IF ~resp.launched
    THEN Raise("OSError")                     \* not a CalledProcessError
    ELSE IF resp.returncode # 0
    THEN Return(current)                      \* check=True, lines 142-144
    ELSE IF resp.json.type = "invalid"
    THEN Return(Strip(resp.stdout))           \* lines 140-141
    ELSE IF resp.json.type # "object"
    THEN Raise("AttributeError")              \* parsed.get on a non-dict
    ELSE IF ~resp.json.has_completion
    THEN Return(Strip(current))               \* .get('completion', current)
    ELSE IF ~resp.json.is_str
    THEN Raise("AttributeError")              \* .strip() on a non-str
    ELSE Return(Strip(resp.json.completion))

----------------------------------------------------------------------------
\* Acquisition

DownloadOutcomes == {"streams_error", "no_best", "no_data", "data", "read_error"}

\* Bytes that reached the segment file.
BytesWritten(o) == IF o \in {"data", "read_error"} THEN 1024 ELSE 0

\* TranscriptionWorker.download_segment: its return value.
download_segment(o) ==
    CASE o = "streams_error" -> FALSE          \* lines 93-95
      [] o = "no_best"       -> FALSE          \* lines 82-83
      [] o = "no_data"       -> TRUE           \* first read empty: break, line 92
      [] o = "data"          -> TRUE           \* line 92
      [] o = "read_error"    -> FALSE          \* lines 93-95

\* The two scratch files of cycle n (lines 50-53).
ScratchFiles(n) == {[n |-> n, suffix |-> ".ts"], [n |-> n, suffix |-> ".wav"]}

----------------------------------------------------------------------------
NoUpdate == [called |-> FALSE, current |-> << >>, batch |-> << >>,
             resp |-> Backend(FALSE, 0, << >>, NotJson), result |-> Return(<< >>)]

Init ==
    /\ running = TRUE
    /\ summary = << >>
    /\ transcript_accum = EmptyText
    /\ pc = "while"
    /\ cycle = 0
    /\ fs = {}
    /\ written = 0
    /\ exc = FALSE
    /\ chunk = 0
    /\ published = << >>
    /\ last_update = NoUpdate
    /\ notified = << >>
    /\ transcribed = << >>
    /\ batches = << >>
    /\ stop_at = "none"
    /\ signal_queue = << >>
    /\ summary_box = << >>

\* A loop head that no longer reads the stop flag.
LoopContinues_ignoresStop == TRUE

\* line 49: the condition of `while self._running`
LoopContinues == running

\* line 49: while self._running
LoopHead ==
    /\ pc = "while"
    /\ IF LoopContinues THEN cycle < MaxCycles /\ pc' = "tempfile" ELSE pc' = "returned"
    /\ UNCHANGED <<running, summary, transcript_accum, cycle, fs, written, exc, chunk,
                   published, last_update, notified, transcribed, batches, stop_at,
                   signal_queue, summary_box>>

\* lines 50-53: both temp files are created with delete=False
MakeTempFiles ==
    /\ pc = "tempfile"
    /\ cycle' = cycle + 1
    /\ fs' = fs \cup ScratchFiles(cycle + 1)
    /\ written' = 0
    /\ pc' = "download"
    /\ UNCHANGED <<running, summary, transcript_accum, exc, chunk, published,
                   last_update, notified, transcribed, batches, stop_at,
                   signal_queue, summary_box>>

\* Where run() goes after download_segment returned ok (lines 55-59).
AfterDownload(ok) == IF ok THEN "extract" ELSE "sleep5"

\* line 55
Download ==
    /\ pc = "download"
    /\ \E o \in DownloadOutcomes :
          /\ written' = BytesWritten(o)
          /\ pc' = AfterDownload(download_segment(o))
    /\ UNCHANGED <<running, summary, transcript_accum, cycle, fs, exc, chunk,
                   published, last_update, notified, transcribed, batches, stop_at,
                   signal_queue, summary_box>>

\* A cool-down followed by `break` instead of `continue`.
AfterCoolDown_break == "returned"

\* Where run() goes after the cool-down (line 57: continue).
AfterCoolDown == "while"

\* lines 56-57
CoolDown ==
    /\ pc = "sleep5"
    /\ pc' = AfterCoolDown
    /\ UNCHANGED <<running, summary, transcript_accum, cycle, fs, written, exc, chunk,
                   published, last_update, notified, transcribed, batches, stop_at,
                   signal_queue, summary_box>>

\* line 60: ffmpeg succeeds, exits non-zero (check=True) or cannot be started
ExtractAudio ==
    /\ pc = "extract"
    /\ \E o \in {"ok", "nonzero", "oserror"} :
          IF o = "ok"
          THEN pc' = "transcribe" /\ exc' = FALSE
          ELSE pc' = "finally" /\ exc' = TRUE
    /\ UNCHANGED <<running, summary, transcript_accum, cycle, fs, written, chunk,
                   published, last_update, notified, transcribed, batches, stop_at,
                   signal_queue, summary_box>>

\* line 61: whisper returns a text (possibly empty) or raises
Transcribe ==
    /\ pc = "transcribe"
    /\ \/ \E n \in ChunkLens : chunk' = n /\ exc' = FALSE
       \/ exc' = TRUE /\ chunk' = chunk
    /\ pc' = "finally"
    /\ UNCHANGED <<running, summary, transcript_accum, cycle, fs, written,
                   published, last_update, notified, transcribed, batches, stop_at,
                   signal_queue, summary_box>>

\* A finally block that removes the segment only.
RemovedByFinally_segmentOnly(n) == {[n |-> n, suffix |-> ".ts"]}

\* lines 66-67: os.remove(stream_path); os.remove(audio_path)
RemovedByFinally(n) == ScratchFiles(n)

\* lines 62-67: except logs and continues; finally removes both files first
Finally ==
    /\ pc = "finally"
    /\ fs' = fs \ RemovedByFinally(cycle)
    /\ pc' = IF exc THEN "while" ELSE "append"
    /\ exc' = FALSE
    /\ UNCHANGED <<running, summary, transcript_accum, cycle, written, chunk,
                   published, last_update, notified, transcribed, batches, stop_at,
                   signal_queue, summary_box>>

\* lines 69-71
AppendStep ==
    /\ pc = "append"
    /\ IF chunk = 0
       THEN /\ pc' = "sleep1"
            /\ UNCHANGED <<transcript_accum, transcribed>>
       ELSE /\ transcript_accum' = AppendChunk(transcript_accum, chunk)
            /\ transcribed' = Append(transcribed, chunk)
            /\ pc' = IF ThresholdReached(transcript_accum') THEN "summarize" ELSE "sleep1"
    /\ UNCHANGED <<running, summary, cycle, fs, written, exc, chunk,
                   published, last_update, notified, batches, stop_at,
                   signal_queue, summary_box>>

\* A signal emitted before the assignment of line 72: it carries the old value.
EmitValue_beforeAssignment(old, new) == old

\* line 74: self.update_summary_signal.emit(self.summary)
EmitValue(old, new) == new

\* A pass that keeps the batch for a retry when the backend exited non-zero.
AccumAfterPass_retryOnFailure(accum, resp) ==
    IF resp.returncode # 0 THEN accum ELSE EmptyText

\* line 73: self.transcript_accum = ""
AccumAfterPass(accum, resp) == EmptyText

\* lines 72-74; an exception leaving update_summary ends the thread at line 72
Summarize ==
    /\ pc = "summarize"
    /\ \E resp \in BackendResponses :
          LET r == update_summary(summary, transcript_accum, resp) IN
          /\ last_update' = [called |-> TRUE, current |-> summary,
                             batch |-> transcript_accum, resp |-> resp, result |-> r]
          /\ batches' = Append(batches, transcript_accum)
          /\ IF r.raised
             THEN /\ pc' = "crashed"
                  /\ UNCHANGED <<summary, transcript_accum, published, signal_queue>>
             ELSE /\ summary' = r.value
                  /\ transcript_accum' = AccumAfterPass(transcript_accum, resp)
                  /\ published' = <<EmitValue(summary, r.value)>>
                  /\ signal_queue' = Append(signal_queue, EmitValue(summary, r.value))
                  /\ pc' = "sleep1"
    /\ UNCHANGED <<running, cycle, fs, written, exc, chunk, notified, transcribed,
                   stop_at, summary_box>>

\* line 76
Sleep1 ==
    /\ pc = "sleep1"
    /\ pc' = "while"
    /\ UNCHANGED <<running, summary, transcript_accum, cycle, fs, written, exc, chunk,
                   published, last_update, notified, transcribed, batches, stop_at,
                   signal_queue, summary_box>>

\* IPTVApp.closeEvent -> TranscriptionWorker.stop (lines 45-46, 215-219);
\* the window closes once.
closeEvent ==
    /\ stop_at = "none"
    /\ running' = FALSE
    /\ stop_at' = pc
    /\ UNCHANGED <<workerVars, signal_queue, summary_box>>

\* IPTVApp.update_summary (lines 212-213), the slot connected at line 178: the
\* UI thread takes the oldest emission and shows it.
IPTVApp_update_summary ==
    /\ signal_queue # << >>
    /\ summary_box' = Head(signal_queue)
    /\ signal_queue' = Tail(signal_queue)
    /\ UNCHANGED <<workerVars, running, stop_at>>

Worker ==
    \/ LoopHead
    \/ MakeTempFiles
    \/ Download
    \/ CoolDown
    \/ ExtractAudio
    \/ Transcribe
    \/ Finally
    \/ AppendStep
    \/ Summarize
    \/ Sleep1

Next == Worker \/ closeEvent \/ IPTVApp_update_summary

Spec == Init /\ [][Next]_vars

\* Every blocking call of the worker returns: the thread keeps taking steps.
FairSpec == Spec /\ WF_vars(Worker)

----------------------------------------------------------------------------
\* Positions of run() inside a cycle, and the calls made from them.
InCycle == {"tempfile", "download", "sleep5", "extract", "transcribe", "finally",
            "append", "summarize", "sleep1"}

\* The backend invocation itself failed: the process could not be started, or
\* it exited with a non-zero status.
InvocationFailed(resp) == ~resp.launched \/ resp.returncode # 0

\* C1: once run() has returned (the session is TERMINATED) exactly one Notifier
\* delivery has been issued and its body is the summary; before that, while the
\* loop is still running, none has been issued.
C1_ExactlyOneDelivery ==
    IF pc = "returned" THEN notified = <<summary>> ELSE notified = << >>

\* C2: a stop that finds pending text below the threshold is followed by one
\* final update_summary call on that text: when run() has returned the pending
\* text is empty and every transcribed chunk has been part of a batch.
C2_StopFlushesPending ==
    pc = "returned" =>
        /\ transcript_accum = EmptyText
        /\ ChunksOf(Concat(batches)) = transcribed

\* C3: at every cycle boundary (the loop head, and the creation of the next
\* cycle's scratch files) no scratch file of an earlier cycle is left on disk,
\* whatever the outcome of that cycle was.
C3_NoScratchAtCycleBoundary ==
    pc \in {"while", "tempfile", "returned"} => Cardinality(fs) = 0

\* C4: whenever the backend invocation fails (launch error or non-zero exit),
\* update_summary(S, batch) returns exactly S and does not raise.
C4_FailureReturnsCurrent ==
    (last_update.called /\ InvocationFailed(last_update.resp)) =>
        last_update.result = Return(last_update.current)

\* C5: no per-cycle error ends the session: the worker never dies of an
\* exception, and run() returns only after stop() was called.
C5_OnlyStopEndsLoop ==
    /\ pc # "crashed"
    /\ pc = "returned" => ~running

\* C6: a summarization pass is triggered exactly at the appends that bring the
\* pending length to at least the threshold, on no other step, and the pending
\* length is 0 right after the pending text was handed to update_summary.
C6_TriggerExactlyAtThreshold ==
    [][ /\ (pc = "append" /\ chunk # 0 /\ pc' # pc) =>
              ((pc' = "summarize") <=>
                   (TextLen(transcript_accum') >= OLLAMA_CHUNK_SIZE_CHARS))
        /\ (pc' = "summarize" /\ pc # "summarize") => (pc = "append" /\ chunk # 0)
        /\ (pc = "summarize" /\ pc' # pc) => TextLen(transcript_accum') = 0 ]_vars

\* C7: download_segment reports success only if at least one byte was written
\* to the segment file: audio conversion never starts on a zero-byte segment.
C7_SuccessMeansData ==
    pc = "extract" => written > 0

\* C8: in every reachable state the non-empty chunks transcribed so far are, in
\* order, the chunks of the batches passed to update_summary followed by the
\* chunks of the pending text: none dropped, duplicated or reordered.
C8_NothingDiscarded ==
    transcribed = ChunksOf(Concat(batches) \o transcript_accum)

C10_ParsingPolicy ==
    (last_update.called /\ ~InvocationFailed(last_update.resp)) =>
        /\ ~last_update.result.raised
        /\ LET js == last_update.resp.json IN
           IF js.type = "object" /\ js.has_completion
           THEN js.is_str => last_update.result.value = Strip(js.completion)
           ELSE last_update.result.value = Strip(last_update.resp.stdout)

\* The backend call failed, or it exited 0 with a malformed payload: blank
\* output, or a keyed object without a 'completion' field.
FailedOrMalformed(resp) ==
    \/ InvocationFailed(resp)
    \/ Strip(resp.stdout) = << >>
    \/ (resp.json.type = "object" /\ ~resp.json.has_completion)

\* C11: a summarization pass whose backend call fails or returns a malformed
\* payload leaves the summary equal to its prior value; in particular such a
\* pass never replaces a non-empty summary by the empty string.
C11_MalformedKeepsSummary ==
    [][ (pc = "summarize" /\ pc' # pc /\ FailedOrMalformed(last_update'.resp)) =>
            summary' = summary ]_vars

\* What a cycle that yields no text must leave alone.
cycleFrame == <<summary, transcript_accum, published, batches, last_update>>

\* C12: a cycle in which acquisition, conversion or transcription fails, or
\* whose chunk is empty, changes neither the pending text nor the summary,
\* makes no update_summary call, publishes nothing and keeps the worker in the
\* loop: a failed download goes through the cool-down back to the loop head,
\* an exception in the try block goes through finally back to the loop head,
\* and an empty chunk goes to the end-of-cycle sleep.
C12_FailedCycleChangesNothing ==
    [][ /\ (pc \in {"download", "sleep5", "extract", "transcribe", "finally", "sleep1"}
              \/ (pc = "append" /\ chunk = 0)) =>
                 /\ UNCHANGED cycleFrame
                 /\ Len(signal_queue') <= Len(signal_queue)
                 /\ pc' \notin {"summarize", "returned", "crashed"}
        /\ (pc = "download" /\ pc' # pc) => pc' \in {"extract", "sleep5"}
        /\ (pc = "sleep5" /\ pc' # pc) => pc' = "while"
        /\ (pc = "finally" /\ exc /\ pc' # pc) => pc' = "while"
        /\ (pc = "append" /\ chunk = 0 /\ pc' # pc) => pc' = "sleep1" ]_vars

\* C12 witness: the third cycle failed to acquire (its scratch files are still
\* there) and is back at the loop head with the summary and the pending text
\* that the first two cycles produced.
C12_FailedAcquisitionKeptState ==
    /\ pc = "while"
    /\ running
    /\ cycle = 3
    /\ ScratchFiles(3) \subseteq fs
    /\ summary # << >>
    /\ transcript_accum # EmptyText
    /\ Len(batches) = 1

\* C13: at every cycle boundary, and once the worker has stopped, the value
\* last carried by update_summary_signal is the summary (or nothing was ever
\* emitted and the summary is still the initial empty string); every change
\* of the summary is emitted in the same step; and no step of the UI thread
\* (closeEvent, the update_summary slot) changes the summary or the pending
\* text.
C13_PublishedIsSummary ==
    /\ [](pc \in {"while", "returned", "crashed"} =>
             (published = <<summary>> \/ (published = << >> /\ summary = << >>)))
    /\ [][ /\ (summary' # summary) =>
                  (published' = <<summary'>>
                   /\ signal_queue' = Append(signal_queue, summary'))
           /\ (running' # running \/ summary_box' # summary_box
                  \/ Len(signal_queue') < Len(signal_queue)) =>
                  UNCHANGED <<summary, transcript_accum>> ]_vars

\* C13 witness: two passes changed the summary, the worker is at the loop
\* head, the last emission carries the current summary and the window has
\* shown it.
C13_TwoChangesPublished ==
    /\ pc = "while"
    /\ Len(batches) = 2
    /\ last_update.current # << >>
    /\ summary # last_update.current
    /\ published = <<summary>>
    /\ summary_box = summary
    /\ signal_queue = << >>

\* C14: in a cycle whose acquisition succeeded both scratch files of the cycle
\* are gone before the chunk is appended and before the loop continues,
\* whether the try block completed, extract_audio raised or transcribe
\* raised: each of the three leads to the finally block, which removes both.
C14_ScratchRemovedOnEveryExit ==
    /\ [](pc \in {"append", "summarize", "sleep1"} => fs \cap ScratchFiles(cycle) = {})
    /\ [][ /\ (pc \in {"extract", "transcribe"} /\ pc' # pc) =>
                  pc' \in {"transcribe", "finally"}
           /\ (pc = "finally" /\ pc' # pc) =>
                  (fs' \cap ScratchFiles(cycle) = {} /\ pc' \in {"append", "while"}) ]_vars

\* C14 witness: the second cycle downloaded data and its try block raised
\* (`chunk` still holds the text of the first cycle, which is the only one
\* appended); the worker is back at the loop head with no scratch file left.
C14_RaisedAndCleaned ==
    /\ pc = "while"
    /\ cycle = 2
    /\ written > 0
    /\ chunk = 200
    /\ transcribed = <<200>>
    /\ fs = {}

\* The loop of run() is over: it returned, or an exception ended the thread.
LoopExited == pc \in {"returned", "crashed"}

\* C15: when every blocking call returns, a stop() is followed by the end of
\* the worker loop, also when acquisition keeps failing; and once the loop is
\* over the summary, the pending text and the published value never change.
C15_StopLeadsToExit ==
    /\ (~running) ~> LoopExited
    /\ [][ LoopExited => (LoopExited' /\ UNCHANGED <<summary, transcript_accum,
                                                      published>>) ]_vars

\* C15 witness: stop() arrived during the cool-down of a failed acquisition
\* and run() has returned.
C15_StoppedInCoolDown ==
    /\ stop_at = "sleep5"
    /\ pc = "returned"
    /\ ScratchFiles(cycle) \subseteq fs

\* C16: every update_summary call that returns is followed by an empty pending
\* text, whatever the backend did (also when it exited non-zero and the
\* summary is unchanged); the batches handed over so far are, in order and
\* without repetition, a prefix of the transcribed chunks, so no batch is
\* handed over twice or re-included in a later one.
C16_PassResetsAccumulator ==
    /\ [](LET handed == ChunksOf(Concat(batches)) IN
             /\ Len(handed) <= Len(transcribed)
             /\ handed = SubSeq(transcribed, 1, Len(handed)))
    /\ [][ (pc = "summarize" /\ pc' = "sleep1") =>
               (transcript_accum' = EmptyText
                /\ batches' = Append(batches, transcript_accum)) ]_vars

\* C16 witness: the backend exited non-zero on the second pass; the summary
\* is the one of the first pass and the pending text is empty.
C16_FailedPassCleared ==
    /\ pc = "sleep1"
    /\ Len(batches) = 2
    /\ last_update.resp.returncode # 0
    /\ summary = last_update.current
    /\ summary # << >>
    /\ transcript_accum = EmptyText

\* C17: at every evaluation of the loop condition and once the worker has
\* stopped, the pending text is shorter than the threshold.
C17_PendingBelowThreshold ==
    (pc = "while" \/ LoopExited) => TextLen(transcript_accum) < OLLAMA_CHUNK_SIZE_CHARS

====
